---- MODULE Spec2Model ----
(***************************************************************************)
(* EduPal: the view/session state machine of the App component, its three  *)
(* stateful sub-components (OnboardingView, TutorSessionView, QuizView),   *)
(* the localStorage pair and the four gateway calls of geminiService.      *)
(*                                                                         *)
(* Conventions.                                                            *)
(*  - JavaScript null and undefined are the records Null and Undefined.    *)
(*  - A text that the program derives other texts from (topic, titles) is  *)
(*    a sequence of words, so that a template literal is a concatenation.  *)
(*  - An optional field (Partial<UserProfile>, lastFeedback) is a key that *)
(*    is or is not in the DOMAIN of the record.                            *)
(*  - An async handler is one action per run-to-completion segment: the    *)
(*    part before the first await, and one action per resolved await.      *)
(*    pending holds the suspended handler of App with the values its       *)
(*    closure captured.                                                    *)
(*  - The loading overlay (fixed inset-0 z-[100]) covers header and main,  *)
(*    so no pointer action is available while isLoading.                   *)
(*  - Date.now() is taken to be non-decreasing.                            *)
(***************************************************************************)
EXTENDS Integers, Sequences, FiniteSets, TLC

VARIABLES
    view,              \* useState<View>
    profile,           \* useState<UserProfile | null>
    learningPath,      \* useState<LearningPath | null>
    suggestedTitles,   \* useState<string[]>
    currentModule,     \* useState<Module | null>
    isLoading,         \* useState(false)
    activeQuiz,        \* useState<Quiz | null>
    sessionStartTime,  \* useRef<number>(0)
    onboardingView,    \* state of the mounted OnboardingView, or Unmounted
    quizView,          \* state of the mounted QuizView, or Unmounted
    tutorView,         \* state of the mounted TutorSessionView, or Unmounted
    localStorage,      \* the browser store: key -> stored text
    now,               \* Date.now()
    pending,           \* the suspended async handler of App
    suggestionCalls,   \* getRelatedCourseSuggestions calls in flight that no handler awaits
    crashed,           \* a render threw: React unmounted the tree
    topicChanges       \* number of handleSelectSuggested calls so far (bounded exploration)

appVars == <<view, profile, learningPath, suggestedTitles, currentModule,
             isLoading, activeQuiz, sessionStartTime>>
vars == <<view, profile, learningPath, suggestedTitles, currentModule,
          isLoading, activeQuiz, sessionStartTime, onboardingView, quizView,
          tutorView, localStorage, now, pending, suggestionCalls, crashed,
          topicChanges>>

----------------------------------------------------------------------------
(* Bounds of the exploration *)

MaxScores == 2          \* quizzes that may be started per profile
MaxNow == 60000         \* the clock stops advancing here (ms)
MaxTopicChanges == 2    \* handleSelectSuggested calls explored
MaxPick == 2            \* the user picks among the first MaxPick suggestions
MaxMessages == 2        \* user messages sent in one tutoring session

TickSteps == {29999, 30000}   \* amounts of time (ms) that pass in one Tick

----------------------------------------------------------------------------
(* Program constants *)

MaxScorePerQuiz == 5    \* the 5 of currentScores.length * 5
MsPerMinute == 60000
PassPercent == 80       \* (score / total) >= 0.8

Null == [isNull |-> TRUE]
Undefined == [isUndefined |-> TRUE]
Unmounted == [mounted |-> FALSE]
NoSelection == -1       \* selected === null in QuizView

WELCOME == "welcome"
ONBOARDING == "onboarding"
DASHBOARD == "dashboard"
TUTORING == "tutoring"
QUIZ == "quiz"
FEEDBACK == "feedback"
View == {WELCOME, ONBOARDING, DASHBOARD, TUTORING, QUIZ, FEEDBACK}

SessionFeedback == {"easy", "medium", "hard"}

PROFILE_KEY == "edupal_profile"
PATH_KEY == "edupal_path"

----------------------------------------------------------------------------
(* Arithmetic of the JavaScript expressions *)

\* Math.round(a / b) for b > 0: the nearest integer, halves up
MathRound(a, b) == (2 * a + b) \div (2 * b)

RECURSIVE Sum(_)
\* scores.reduce((a, b) => a + b, 0)
Sum(s) == IF s = <<>> THEN 0 ELSE s[1] + Sum(Tail(s))

Min(a, b) == IF a < b THEN a ELSE b

----------------------------------------------------------------------------
(* JSON and the store *)

\* JSON.stringify drops the keys of a module whose value is undefined
StringifyModule(m) ==
    [k \in {f \in DOMAIN m : f # "sources" \/ m.sources # Undefined} |-> m[k]]

\* JSON.stringify(newPath)
StringifyPath(path) ==
    [json |-> [path EXCEPT !.modules =
                  [i \in 1..Len(path.modules) |-> StringifyModule(path.modules[i])]]]

\* JSON.stringify(newProfile): every field of a profile is defined
StringifyProfile(p) == [json |-> p]

\* a text that is not JSON
Unparsable == [unparsable |-> TRUE]

\* JSON.parse(text) returns a value (it throws a SyntaxError otherwise)
Parses(text) == "json" \in DOMAIN text

\* JSON.parse of a text that parses
JSONparse(text) == text.json

\* localStorage.getItem
getItem(store, key) == IF key \in DOMAIN store THEN store[key] ELSE Null

EmptyStore == [k \in {} |-> Null]

\* Faulty variant of saveState: the second setItem is missing
saveStateProfileOnly(store, newProfile, newPath) ==
    [k \in DOMAIN store \cup {PROFILE_KEY} |->
        IF k = PROFILE_KEY THEN StringifyProfile(newProfile)
        ELSE store[k]]

\* saveState: two setItem calls
saveState(store, newProfile, newPath) ==
    [k \in DOMAIN store \cup {PROFILE_KEY, PATH_KEY} |->
        IF k = PROFILE_KEY THEN StringifyProfile(newProfile)
        ELSE IF k = PATH_KEY THEN StringifyPath(newPath)
        ELSE store[k]]

----------------------------------------------------------------------------
(* The gateway (geminiService) *)

\* Faulty variant of FirstModule: takes the last module
FirstModuleTakesLast(path) ==
    IF Len(path.modules) > 0 THEN path.modules[Len(path.modules)] ELSE Undefined

\* path.modules[0]
FirstModule(path) == IF Len(path.modules) > 0 THEN path.modules[1] ELSE Undefined

\* Faulty variant of FallbackPath: the module is locked
FallbackPathLocked(p) ==
    [estimatedWeeks |-> 4,
     personalizedReasoning |-> "Fallback sequence activated",
     modules |-> << [id |-> "m1",
                     title |-> <<"Foundations", "of">> \o p.topic,
                     status |-> "locked"] >>]

\* the catch branch of generateLearningPath
FallbackPath(p) ==
    [estimatedWeeks |-> 4,
     personalizedReasoning |-> "Fallback sequence activated",
     modules |-> << [id |-> "m1",
                     title |-> <<"Foundations", "of">> \o p.topic,
                     status |-> "current"] >>]

\* what the provider can answer to the learning-path request
PathReplies ==
    { [ok |-> FALSE],                                   \* generateContent rejects
      [ok |-> TRUE, text |-> Unparsable, groundingChunks |-> <<>>],
      [ok |-> TRUE, groundingChunks |-> <<>>,            \* response.text empty: '{}'
       text |-> [json |-> [k \in {} |-> Null]]],
      [ok |-> TRUE, groundingChunks |-> <<>>,
       text |-> [json |-> [modules |-> <<>>, estimatedWeeks |-> 1,
                           personalizedReasoning |-> "none"]]],
      [ok |-> TRUE, groundingChunks |-> <<>>,
       text |-> [json |-> [modules |-> << [id |-> "m1", title |-> <<"Basics">>],
                                          [id |-> "m2", title |-> <<"Practice">>] >>,
                           estimatedWeeks |-> 2,
                           personalizedReasoning |-> "tailored"]]] }

\* the try block of generateLearningPath throws: the call rejects, the text
\* does not parse, or path.modules is undefined and has no map
PathReplyUnusable(reply) ==
    \/ ~reply.ok
    \/ ~Parses(reply.text)
    \/ "modules" \notin DOMAIN JSONparse(reply.text)

\* sources.length > 0 ? sources : undefined
ModuleSources(chunks) == IF Len(chunks) > 0 THEN [items |-> chunks] ELSE Undefined

\* generateLearningPath, given the provider's reply
generateLearningPath(p, reply) ==
    IF PathReplyUnusable(reply)
    THEN FallbackPath(p)
    ELSE LET path == JSONparse(reply.text) IN
         [path EXCEPT !.modules =
            [i \in 1..Len(path.modules) |->
                [k \in DOMAIN path.modules[i] \cup {"status", "sources"} |->
                    IF k = "status" THEN "current"
                    ELSE IF k = "sources" THEN ModuleSources(reply.groundingChunks)
                    ELSE path.modules[i][k]]]]

\* the catch branch of getRelatedCourseSuggestions
FallbackSuggestions(p) ==
    << <<"Advanced">> \o p.topic \o <<"Strategies">>,
       <<"The", "Ethics", "of">> \o p.topic,
       <<"Practical">> \o p.topic \o <<"Applications">>,
       <<"Future", "Trends", "in">> \o p.topic,
       p.topic \o <<"Masterclass">> >>

\* what the provider can answer to the suggestions request
SuggestionReplies ==
    { [ok |-> FALSE],
      [ok |-> TRUE, text |-> Unparsable],
      [ok |-> TRUE, text |-> [json |-> << <<"T1">> >>]] }

\* getRelatedCourseSuggestions, given the provider's reply
getRelatedCourseSuggestions(p, reply) ==
    IF reply.ok /\ Parses(reply.text)
    THEN JSONparse(reply.text)
    ELSE FallbackSuggestions(p)

Question(c) == [correctAnswer |-> c, options |-> 2]

\* what the provider can answer to the quiz request
QuizReplies ==
    { [ok |-> FALSE],
      [ok |-> TRUE, text |-> Unparsable],
      [ok |-> TRUE, text |-> [json |-> [title |-> "Quiz", questions |-> <<>>]]],
      [ok |-> TRUE,
       text |-> [json |-> [title |-> "Quiz",
                           questions |-> <<Question(0), Question(1), Question(0),
                                           Question(1), Question(0)>>]]] }

\* generateQuiz rejects: generateContent rejects or JSON.parse throws
generateQuizRejects(reply) == ~reply.ok \/ ~Parses(reply.text)

\* generateQuiz resolved
generateQuiz(reply) == JSONparse(reply.text)

----------------------------------------------------------------------------
(* Component state *)

\* useState of OnboardingView
OnboardingInitial ==
    [step |-> 1,
     data |-> [level |-> "beginner", goal |-> "concept understanding",
               style |-> "mixed", timePerDay |-> 1, language |-> "English",
               performance |-> [quizScores |-> <<>>, timeSpentMinutes |-> 0,
                                completedTopics |-> <<>>, averageAccuracy |-> 0]]]

\* useState of QuizView
QuizInitial ==
    [currentIdx |-> 0, answers |-> <<>>, showResult |-> FALSE, selected |-> NoSelection]

\* the first message of TutorSessionView, as the words of its template
Greeting(p, module) ==
    <<"Identity", "verified">> \o <<p.name>> \o <<"Initializing", "the">>
        \o module.title \o <<"node">>

\* useState of TutorSessionView
TutorInitial(p, module) ==
    [messages |-> << [role |-> "assistant", content |-> Greeting(p, module),
                      timestamp |-> now] >>,
     input |-> <<>>,
     isTyping |-> FALSE]

\* {...data, [key]: value}
SetField(data, key, value) ==
    [k \in DOMAIN data \cup {key} |-> IF k = key THEN value ELSE data[k]]

\* !data.name and the like
Falsy(data, key, empty) == key \notin DOMAIN data \/ data[key] = empty

\* view === View.ONBOARDING && <OnboardingView .../>
RenderOnboarding(v) ==
    IF v = ONBOARDING
    THEN IF onboardingView = Unmounted THEN OnboardingInitial ELSE onboardingView
    ELSE Unmounted

\* view === View.QUIZ && activeQuiz && <QuizView .../>
RenderQuiz(v, quiz) ==
    IF v = QUIZ /\ quiz # Null
    THEN IF quizView = Unmounted THEN QuizInitial ELSE quizView
    ELSE Unmounted

----------------------------------------------------------------------------
(* Start of the application *)

NameInputs == {"", "Ann"}
TopicInputs == {<<>>, <<"T0">>}

\* a profile as OnboardingView hands it over, and the path made for it
SampleProfile ==
    OnboardingInitial.data @@
    [name |-> "Ann", classInfo |-> "Ann", subject |-> "Ann", topic |-> <<"T0">>]

\* the store as the browser can hand it to a starting application
InitialStores ==
    { EmptyStore,
      [k \in {PROFILE_KEY} |-> StringifyProfile(SampleProfile)],
      [k \in {PATH_KEY} |-> StringifyPath(FallbackPath(SampleProfile))],
      [k \in {PROFILE_KEY} |-> Unparsable],
      [k \in {PROFILE_KEY, PATH_KEY} |->
          IF k = PROFILE_KEY THEN Unparsable
          ELSE StringifyPath(FallbackPath(SampleProfile))],
      [k \in {PROFILE_KEY, PATH_KEY} |->
          IF k = PROFILE_KEY THEN StringifyProfile(SampleProfile)
          ELSE Unparsable] }

\* both keys hold a text: savedProfile && savedPath
HasSavedPair(store) ==
    getItem(store, PROFILE_KEY) # Null /\ getItem(store, PATH_KEY) # Null

\* the useState values of App
Constructed ==
    [view |-> WELCOME, profile |-> Null, learningPath |-> Null,
     currentModule |-> Null, suggestionCalls |-> <<>>, crashed |-> FALSE]

\* Faulty variant of Mounted: the restore forgets setView(View.DASHBOARD)
MountedStaysOnWelcome(store) ==
    IF ~HasSavedPair(store)
    THEN Constructed
    ELSE IF ~Parses(getItem(store, PROFILE_KEY)) \/ ~Parses(getItem(store, PATH_KEY))
    THEN [Constructed EXCEPT !.crashed = TRUE]
    ELSE LET p == JSONparse(getItem(store, PROFILE_KEY))
             path == JSONparse(getItem(store, PATH_KEY))
         IN [view |-> WELCOME, profile |-> p, learningPath |-> path,
             currentModule |-> FirstModule(path), suggestionCalls |-> <<p>>,
             crashed |-> FALSE]

\* The state after construction and the mount effect, as a record. A
\* JSON.parse that throws is uncaught in the effect: React unmounts the tree
\* before any setter of the effect has run.
Mounted(store) ==
    IF ~HasSavedPair(store)
    THEN Constructed
    ELSE IF ~Parses(getItem(store, PROFILE_KEY)) \/ ~Parses(getItem(store, PATH_KEY))
    THEN [Constructed EXCEPT !.crashed = TRUE]
    ELSE LET p == JSONparse(getItem(store, PROFILE_KEY))
             path == JSONparse(getItem(store, PATH_KEY))
         IN [view |-> DASHBOARD, profile |-> p, learningPath |-> path,
             currentModule |-> FirstModule(path), suggestionCalls |-> <<p>>,
             crashed |-> FALSE]

Init ==
    \E store \in InitialStores :
        /\ localStorage = store
        /\ view = Mounted(store).view
        /\ profile = Mounted(store).profile
        /\ learningPath = Mounted(store).learningPath
        /\ currentModule = Mounted(store).currentModule
        /\ suggestionCalls = Mounted(store).suggestionCalls
        /\ suggestedTitles = <<>>
        /\ isLoading = FALSE
        /\ activeQuiz = Null
        /\ sessionStartTime = 0
        /\ onboardingView = Unmounted
        /\ quizView = Unmounted
        /\ tutorView = Unmounted
        /\ now = 0
        /\ pending = [op |-> "none"]
        /\ crashed = Mounted(store).crashed
        /\ topicChanges = 0

\* window.location.reload() on the given store: every in-memory value and
\* every call in flight is lost, the mount effect runs again
Restart(store) ==
    /\ localStorage' = store
    /\ view' = Mounted(store).view
    /\ profile' = Mounted(store).profile
    /\ learningPath' = Mounted(store).learningPath
    /\ currentModule' = Mounted(store).currentModule
    /\ suggestionCalls' = Mounted(store).suggestionCalls
    /\ suggestedTitles' = <<>>
    /\ isLoading' = FALSE
    /\ activeQuiz' = Null
    /\ sessionStartTime' = 0
    /\ onboardingView' = Unmounted
    /\ quizView' = Unmounted
    /\ tutorView' = Unmounted
    /\ pending' = [op |-> "none"]
    /\ crashed' = Mounted(store).crashed
    /\ UNCHANGED <<now, topicChanges>>

\* the user reloads the page
Reload == Restart(localStorage)

\* the pointer reaches the page: no overlay, and the tree is mounted
Interactive == ~isLoading /\ ~crashed

----------------------------------------------------------------------------
(* Values captured when an async handler starts, kept with the suspended  *)
(* handler so that its outcome can be compared with the state it started  *)
(* from.                                                                   *)
Before ==
    [view |-> view, profile |-> profile, learningPath |-> learningPath,
     currentModule |-> currentModule, activeQuiz |-> activeQuiz,
     localStorage |-> localStorage]

NoPending == [op |-> "none"]

----------------------------------------------------------------------------
(* WelcomeView and OnboardingView *)

\* WelcomeView onStart: setView(View.ONBOARDING)
onStart ==
    /\ Interactive /\ view = WELCOME
    /\ view' = ONBOARDING
    /\ onboardingView' = OnboardingInitial
    /\ UNCHANGED <<profile, learningPath, suggestedTitles, currentModule, isLoading,
                   activeQuiz, sessionStartTime, quizView, localStorage, now,
                   pending, suggestionCalls, crashed, topicChanges,
                   tutorView>>

\* onChange of the inputs of step 1 and step 2
OnboardingInput ==
    /\ Interactive /\ view = ONBOARDING
    /\ \/ /\ onboardingView.step = 1
          /\ \E key \in {"name", "classInfo", "subject"}, value \in NameInputs :
                onboardingView' = [onboardingView EXCEPT
                                     !.data = SetField(onboardingView.data, key, value)]
       \/ /\ onboardingView.step = 2
          /\ \E value \in TopicInputs :
                onboardingView' = [onboardingView EXCEPT
                                     !.data = SetField(onboardingView.data, "topic", value)]
    /\ UNCHANGED <<appVars, quizView, localStorage, now, pending, suggestionCalls,
                   crashed, topicChanges,
                   tutorView>>

\* Faulty variant of NextDisabled: Next Step is enabled without a topic
NextDisabledStepOne(ov) ==
    /\ ov.step = 1
    /\ \/ Falsy(ov.data, "name", "")
       \/ Falsy(ov.data, "classInfo", "")
       \/ Falsy(ov.data, "subject", "")

\* disabled={!data.name || !data.classInfo || !data.subject}, disabled={!data.topic}
NextDisabled(ov) ==
    \/ /\ ov.step = 1
       /\ \/ Falsy(ov.data, "name", "")
          \/ Falsy(ov.data, "classInfo", "")
          \/ Falsy(ov.data, "subject", "")
    \/ /\ ov.step = 2
       /\ Falsy(ov.data, "topic", <<>>)

\* next: Continue / Next Step
next ==
    /\ Interactive /\ view = ONBOARDING
    /\ onboardingView.step \in {1, 2}
    /\ ~NextDisabled(onboardingView)
    /\ onboardingView' = [onboardingView EXCEPT !.step = @ + 1]
    /\ UNCHANGED <<appVars, quizView, localStorage, now, pending, suggestionCalls,
                   crashed, topicChanges,
                   tutorView>>

\* prev: Back
prev ==
    /\ Interactive /\ view = ONBOARDING
    /\ onboardingView.step \in {2, 3}
    /\ onboardingView' = [onboardingView EXCEPT !.step = @ - 1]
    /\ UNCHANGED <<appVars, quizView, localStorage, now, pending, suggestionCalls,
                   crashed, topicChanges,
                   tutorView>>

\* handleOnboardingComplete up to await generateLearningPath(userData)
handleOnboardingComplete ==
    /\ Interactive /\ view = ONBOARDING
    /\ onboardingView.step = 3
    /\ isLoading' = TRUE
    /\ profile' = onboardingView.data
    /\ pending' = [op |-> "handleOnboardingComplete", await |-> "generateLearningPath",
                   userData |-> onboardingView.data, before |-> Before]
    /\ UNCHANGED <<view, learningPath, suggestedTitles, currentModule, activeQuiz,
                   sessionStartTime, onboardingView, quizView, localStorage, now,
                   suggestionCalls, crashed, topicChanges,
                   tutorView>>

\* handleOnboardingComplete from the resolved generateLearningPath
\* up to await loadSuggestions(userData)
OnboardingPathSettled(reply) ==
    /\ ~crashed
    /\ pending.op = "handleOnboardingComplete" /\ pending.await = "generateLearningPath"
    /\ LET path == generateLearningPath(pending.userData, reply) IN
         /\ learningPath' = path
         /\ currentModule' = FirstModule(path)
         /\ localStorage' = saveState(localStorage, pending.userData, path)
    /\ pending' = [pending EXCEPT !.await = "loadSuggestions"]
    /\ UNCHANGED <<view, profile, suggestedTitles, isLoading, activeQuiz,
                   sessionStartTime, onboardingView, quizView, now,
                   suggestionCalls, crashed, topicChanges,
                   tutorView>>

OnboardingPathResolved == \E reply \in PathReplies : OnboardingPathSettled(reply)

\* handleOnboardingComplete from the resolved loadSuggestions to its end
OnboardingSuggestionsResolved ==
    /\ ~crashed
    /\ pending.op = "handleOnboardingComplete" /\ pending.await = "loadSuggestions"
    /\ \E reply \in SuggestionReplies :
         suggestedTitles' = getRelatedCourseSuggestions(pending.userData, reply)
    /\ view' = DASHBOARD
    /\ isLoading' = FALSE
    /\ onboardingView' = RenderOnboarding(DASHBOARD)
    /\ pending' = NoPending
    /\ UNCHANGED <<profile, learningPath, currentModule, activeQuiz, sessionStartTime,
                   quizView, localStorage, now, suggestionCalls, crashed, topicChanges,
                   tutorView>>

----------------------------------------------------------------------------
(* DashboardView *)

\* view === View.DASHBOARD && profile && learningPath && <DashboardView .../>
DashboardShown == view = DASHBOARD /\ profile # Null /\ learningPath # Null

\* a call of loadSuggestions that nobody awaits resolves: setSuggestedTitles(titles)
loadSuggestions ==
    /\ ~crashed
    /\ \E i \in 1..Len(suggestionCalls) :
         /\ \E reply \in SuggestionReplies :
              suggestedTitles' = getRelatedCourseSuggestions(suggestionCalls[i], reply)
         /\ suggestionCalls' = [j \in 1..(Len(suggestionCalls) - 1) |->
                                   IF j < i THEN suggestionCalls[j]
                                   ELSE suggestionCalls[j + 1]]
    /\ UNCHANGED <<view, profile, learningPath, currentModule, isLoading, activeQuiz,
                   sessionStartTime, onboardingView, quizView, localStorage, now,
                   pending, crashed, topicChanges,
                   tutorView>>

\* Faulty variant of handleSelectSuggested: the new profile starts with an
\* empty performance history
handleSelectSuggestedResetsHistory ==
    /\ Interactive /\ DashboardShown
    /\ topicChanges < MaxTopicChanges
    /\ \E i \in 1..Min(Len(suggestedTitles), MaxPick) :
         LET newProfile == [profile EXCEPT !.topic = suggestedTitles[i],
                                           !.performance = OnboardingInitial.data.performance] IN
           /\ profile' = newProfile
           /\ pending' = [op |-> "handleSelectSuggested", newProfile |-> newProfile,
                          before |-> Before]
    /\ isLoading' = TRUE
    /\ topicChanges' = topicChanges + 1
    /\ UNCHANGED <<view, learningPath, suggestedTitles, currentModule, activeQuiz,
                   sessionStartTime, onboardingView, quizView, localStorage, now,
                   suggestionCalls, crashed,
                   tutorView>>

\* handleSelectSuggested up to await generateLearningPath(newProfile)
handleSelectSuggested ==
    /\ Interactive /\ DashboardShown
    /\ topicChanges < MaxTopicChanges
    /\ \E i \in 1..Min(Len(suggestedTitles), MaxPick) :
         LET newProfile == [profile EXCEPT !.topic = suggestedTitles[i]] IN
           /\ profile' = newProfile
           /\ pending' = [op |-> "handleSelectSuggested", newProfile |-> newProfile,
                          before |-> Before]
    /\ isLoading' = TRUE
    /\ topicChanges' = topicChanges + 1
    /\ UNCHANGED <<view, learningPath, suggestedTitles, currentModule, activeQuiz,
                   sessionStartTime, onboardingView, quizView, localStorage, now,
                   suggestionCalls, crashed,
                   tutorView>>

\* Faulty variant of SelectSuggestedSettled: the handler ends without
\* setIsLoading(false)
SelectSuggestedSettledKeepsLoading(reply) ==
    /\ ~crashed
    /\ pending.op = "handleSelectSuggested"
    /\ LET path == generateLearningPath(pending.newProfile, reply) IN
         /\ learningPath' = path
         /\ currentModule' = FirstModule(path)
         /\ localStorage' = saveState(localStorage, pending.newProfile, path)
    /\ suggestionCalls' = Append(suggestionCalls, pending.newProfile)
    /\ view' = DASHBOARD
    /\ pending' = NoPending
    /\ UNCHANGED <<profile, suggestedTitles, activeQuiz, sessionStartTime, isLoading,
                   onboardingView, quizView, tutorView, now, crashed, topicChanges>>

\* handleSelectSuggested from the resolved generateLearningPath to its end
SelectSuggestedSettled(reply) ==
    /\ ~crashed
    /\ pending.op = "handleSelectSuggested"
    /\ LET path == generateLearningPath(pending.newProfile, reply) IN
         /\ learningPath' = path
         /\ currentModule' = FirstModule(path)
         /\ localStorage' = saveState(localStorage, pending.newProfile, path)
    /\ suggestionCalls' = Append(suggestionCalls, pending.newProfile)
    /\ view' = DASHBOARD
    /\ isLoading' = FALSE
    /\ pending' = NoPending
    /\ UNCHANGED <<profile, suggestedTitles, activeQuiz, sessionStartTime,
                   onboardingView, quizView, tutorView, now, crashed, topicChanges>>

SelectSuggestedResolved == \E reply \in PathReplies : SelectSuggestedSettled(reply)

\* handleSelectModule(module)
handleSelectModule(module) ==
    /\ currentModule' = module
    /\ sessionStartTime' = now
    /\ view' = TUTORING
    /\ tutorView' = TutorInitial(profile, module)
    /\ UNCHANGED <<profile, learningPath, suggestedTitles, isLoading, activeQuiz,
                   onboardingView, quizView, localStorage, now, pending,
                   suggestionCalls, crashed, topicChanges>>

\* a module card: onClick={() => onSelectModule(m)}
SelectModuleCard ==
    /\ Interactive /\ DashboardShown
    /\ \E i \in 1..Len(learningPath.modules) : handleSelectModule(learningPath.modules[i])

\* Resume Node: currentModule && onSelectModule(currentModule)
ResumeNode ==
    /\ Interactive /\ DashboardShown
    /\ currentModule \notin {Null, Undefined}
    /\ handleSelectModule(currentModule)

\* startQuiz up to await generateQuiz(profile, currentModule.title)
startQuiz ==
    /\ Interactive /\ DashboardShown
    /\ currentModule \notin {Null, Undefined}
    /\ Len(profile.performance.quizScores) < MaxScores
    /\ isLoading' = TRUE
    /\ pending' = [op |-> "startQuiz", profile |-> profile,
                   moduleTitle |-> currentModule.title, before |-> Before]
    /\ UNCHANGED <<view, profile, learningPath, suggestedTitles, currentModule,
                   activeQuiz, sessionStartTime, onboardingView, quizView, localStorage,
                   now, suggestionCalls, crashed, topicChanges,
                   tutorView>>

\* QuizView renders quiz.questions[currentIdx].question
QuizRenders(quiz) == Len(quiz.questions) > 0

\* Faulty variant of StartQuizSettled: the resolved quiz selects the first
\* module of the path
StartQuizSettledResetsModule(reply) ==
    /\ ~crashed
    /\ pending.op = "startQuiz"
    /\ IF generateQuizRejects(reply)
       THEN UNCHANGED <<activeQuiz, view, quizView, crashed, currentModule>>
       ELSE LET quiz == generateQuiz(reply) IN
            /\ activeQuiz' = quiz
            /\ view' = QUIZ
            /\ quizView' = IF QuizRenders(quiz) THEN QuizInitial ELSE Unmounted
            /\ crashed' = ~QuizRenders(quiz)
            /\ currentModule' = FirstModule(learningPath)
    /\ isLoading' = FALSE
    /\ pending' = NoPending
    /\ UNCHANGED <<profile, learningPath, suggestedTitles,
                   sessionStartTime, onboardingView, localStorage, now,
                   suggestionCalls, topicChanges,
                   tutorView>>

\* Faulty variant of StartQuizSettled: the catch branch leaves the overlay up
StartQuizSettledKeepsLoading(reply) ==
    /\ ~crashed
    /\ pending.op = "startQuiz"
    /\ IF generateQuizRejects(reply)
       THEN UNCHANGED <<activeQuiz, view, quizView, crashed, isLoading>>
       ELSE /\ activeQuiz' = generateQuiz(reply)
            /\ view' = QUIZ
            /\ quizView' = IF QuizRenders(generateQuiz(reply))
                           THEN QuizInitial ELSE Unmounted
            /\ crashed' = ~QuizRenders(generateQuiz(reply))
            /\ isLoading' = FALSE
    /\ pending' = NoPending
    /\ UNCHANGED <<profile, learningPath, suggestedTitles, currentModule,
                   sessionStartTime, onboardingView, localStorage, now,
                   suggestionCalls, topicChanges, tutorView>>

\* startQuiz from the resolved or rejected generateQuiz to its end
StartQuizSettled(reply) ==
    /\ ~crashed
    /\ pending.op = "startQuiz"
    /\ IF generateQuizRejects(reply)
       THEN UNCHANGED <<activeQuiz, view, quizView, crashed>>
       ELSE LET quiz == generateQuiz(reply) IN
            /\ activeQuiz' = quiz
            /\ view' = QUIZ
            /\ quizView' = IF QuizRenders(quiz) THEN QuizInitial ELSE Unmounted
            /\ crashed' = ~QuizRenders(quiz)
    /\ isLoading' = FALSE
    /\ pending' = NoPending
    /\ UNCHANGED <<profile, learningPath, suggestedTitles, currentModule,
                   sessionStartTime, onboardingView, localStorage, now,
                   suggestionCalls, topicChanges,
                   tutorView>>

StartQuizResolved == \E reply \in QuizReplies : StartQuizSettled(reply)

----------------------------------------------------------------------------
(* Tutoring and feedback *)

\* time passes while a session is open
Tick ==
    /\ view = TUTORING
    /\ \E d \in TickSteps :
         /\ now + d <= MaxNow
         /\ now' = now + d
    /\ UNCHANGED <<appVars, onboardingView, quizView, localStorage, pending,
                   suggestionCalls, crashed, topicChanges,
                   tutorView>>

\* Faulty variant of Elapsed: Math.floor instead of Math.round
ElapsedFloor(t, start) == (t - start) \div MsPerMinute

\* Math.round((Date.now() - sessionStartTime.current) / 60000)
Elapsed(t, start) == MathRound(t - start, MsPerMinute)

\* Faulty variant of handleEndSession: persists the updated profile
handleEndSessionSaves ==
    /\ Interactive /\ view = TUTORING
    /\ profile # Null /\ currentModule \notin {Null, Undefined}
    /\ profile' = [profile EXCEPT !.performance.timeSpentMinutes =
                       @ + Elapsed(now, sessionStartTime)]
    /\ localStorage' = IF learningPath # Null
                       THEN saveState(localStorage, profile', learningPath)
                       ELSE localStorage
    /\ view' = FEEDBACK
    /\ tutorView' = Unmounted
    /\ UNCHANGED <<learningPath, suggestedTitles, currentModule, isLoading, activeQuiz,
                   sessionStartTime, onboardingView, quizView, now,
                   pending, suggestionCalls, crashed, topicChanges>>

\* handleEndSession (Terminate)
handleEndSession ==
    /\ Interactive /\ view = TUTORING
    /\ profile # Null /\ currentModule \notin {Null, Undefined}
    /\ profile' = [profile EXCEPT !.performance.timeSpentMinutes =
                       @ + Elapsed(now, sessionStartTime)]
    /\ view' = FEEDBACK
    /\ tutorView' = Unmounted
    /\ UNCHANGED <<learningPath, suggestedTitles, currentModule, isLoading, activeQuiz,
                   sessionStartTime, onboardingView, quizView, localStorage, now,
                   pending, suggestionCalls, crashed, topicChanges>>

\* Faulty variant of submitFeedback: saves the profile of the closure, not
\* updatedProfile
submitFeedbackSavesStale(feedback) ==
    /\ Interactive /\ view = FEEDBACK
    /\ IF profile # Null /\ learningPath # Null
       THEN /\ profile' = [profile EXCEPT !.performance =
                              SetField(profile.performance, "lastFeedback", feedback)]
            /\ localStorage' = saveState(localStorage, profile, learningPath)
       ELSE UNCHANGED <<profile, localStorage>>
    /\ view' = DASHBOARD
    /\ UNCHANGED <<learningPath, suggestedTitles, currentModule, isLoading, activeQuiz,
                   sessionStartTime, onboardingView, quizView, now, pending,
                   suggestionCalls, crashed, topicChanges,
                   tutorView>>

\* submitFeedback(feedback)
submitFeedback(feedback) ==
    /\ Interactive /\ view = FEEDBACK
    /\ IF profile # Null /\ learningPath # Null
       THEN LET updatedProfile ==
                  [profile EXCEPT !.performance =
                      SetField(profile.performance, "lastFeedback", feedback)] IN
              /\ profile' = updatedProfile
              /\ localStorage' = saveState(localStorage, updatedProfile, learningPath)
       ELSE UNCHANGED <<profile, localStorage>>
    /\ view' = DASHBOARD
    /\ UNCHANGED <<learningPath, suggestedTitles, currentModule, isLoading, activeQuiz,
                   sessionStartTime, onboardingView, quizView, now, pending,
                   suggestionCalls, crashed, topicChanges,
                   tutorView>>

\* FeedbackView: one button per rating
FeedbackSelect == \E feedback \in SessionFeedback : submitFeedback(feedback)

----------------------------------------------------------------------------
(* TutorSessionView *)

\* a text of the input field: a sequence of tokens, " " being white space
TutorInputs == {<<>>, <<" ">>, <<" ", "hi", " ">>}

RECURSIVE TrimStart(_)
\* String.prototype.trimStart
TrimStart(text) ==
    IF text # <<>> /\ Head(text) = " " THEN TrimStart(Tail(text)) ELSE text

RECURSIVE TrimEnd(_)
\* String.prototype.trimEnd
TrimEnd(text) ==
    IF text # <<>> /\ text[Len(text)] = " "
    THEN TrimEnd(SubSeq(text, 1, Len(text) - 1))
    ELSE text

\* input.trim()
Trim(text) == TrimEnd(TrimStart(text))

\* the literal that getTutorResponse returns for an empty response.text
Nudge == <<"That's", "an", "interesting", "observation">>

\* what the provider can answer to the tutor request
TutorReplies ==
    { [ok |-> FALSE],                          \* generateContent rejects
      [ok |-> TRUE, text |-> <<>>],            \* response.text empty
      [ok |-> TRUE, text |-> <<"Why", "?">>] }

\* getTutorResponse rejects exactly when generateContent does
TutorResponseRejects(reply) == ~reply.ok

\* getTutorResponse resolved: response.text || nudge
getTutorResponse(reply) == IF reply.text # <<>> THEN reply.text ELSE Nudge

\* messages of the user in the transcript
UserMessages(messages) ==
    Cardinality({i \in 1..Len(messages) : messages[i].role = "user"})

\* onChange of the input: setInput(e.target.value)
setInput ==
    /\ Interactive /\ view = TUTORING /\ tutorView # Unmounted
    /\ \E value \in TutorInputs :
         /\ value # tutorView.input
         /\ tutorView' = [tutorView EXCEPT !.input = value]
    /\ UNCHANGED <<appVars, onboardingView, quizView, localStorage, now, pending,
                   suggestionCalls, crashed, topicChanges>>

\* Faulty variant of SendGuard: the input is not trimmed
SendGuardUntrimmed(tv) == tv.input # <<>> /\ ~tv.isTyping

\* the negation of: if (!input.trim() || isTyping) return
SendGuard(tv) == Trim(tv.input) # <<>> /\ ~tv.isTyping

\* Faulty variant of handleSend: the user message is put in front of the
\* transcript
handleSendPrepends ==
    /\ Interactive /\ view = TUTORING /\ tutorView # Unmounted
    /\ SendGuard(tutorView)
    /\ UserMessages(tutorView.messages) < MaxMessages
    /\ LET userMsg == [role |-> "user", content |-> tutorView.input, timestamp |-> now]
           newHistory == <<userMsg>> \o tutorView.messages
       IN tutorView' = [messages |-> newHistory, input |-> <<>>, isTyping |-> TRUE]
    /\ UNCHANGED <<appVars, onboardingView, quizView, localStorage, now, pending,
                   suggestionCalls, crashed, topicChanges>>

\* handleSend up to await getTutorResponse(newHistory, ...)
handleSend ==
    /\ Interactive /\ view = TUTORING /\ tutorView # Unmounted
    /\ SendGuard(tutorView)
    /\ UserMessages(tutorView.messages) < MaxMessages
    /\ LET userMsg == [role |-> "user", content |-> tutorView.input, timestamp |-> now]
           newHistory == Append(tutorView.messages, userMsg)
       IN tutorView' = [messages |-> newHistory, input |-> <<>>, isTyping |-> TRUE]
    /\ UNCHANGED <<appVars, onboardingView, quizView, localStorage, now, pending,
                   suggestionCalls, crashed, topicChanges>>

\* Faulty variant of TutorReplySettled: a rejected call appends the nudge
TutorReplySettledNudges(reply) ==
    /\ ~crashed
    /\ tutorView # Unmounted /\ tutorView.isTyping
    /\ tutorView' =
          [tutorView EXCEPT
             !.messages = Append(@, [role |-> "assistant",
                                     content |-> IF TutorResponseRejects(reply)
                                                 THEN Nudge
                                                 ELSE getTutorResponse(reply),
                                     timestamp |-> now]),
             !.isTyping = FALSE]
    /\ UNCHANGED <<appVars, onboardingView, quizView, localStorage, now, pending,
                   suggestionCalls, crashed, topicChanges>>

\* handleSend from the settled getTutorResponse to its end: the setters of
\* an unmounted TutorSessionView have no effect
TutorReplySettled(reply) ==
    /\ ~crashed
    /\ tutorView # Unmounted /\ tutorView.isTyping
    /\ tutorView' =
          [tutorView EXCEPT
             !.messages = IF TutorResponseRejects(reply)
                          THEN @
                          ELSE Append(@, [role |-> "assistant",
                                          content |-> getTutorResponse(reply),
                                          timestamp |-> now]),
             !.isTyping = FALSE]
    /\ UNCHANGED <<appVars, onboardingView, quizView, localStorage, now, pending,
                   suggestionCalls, crashed, topicChanges>>

TutorReplyResolved == \E reply \in TutorReplies : TutorReplySettled(reply)

----------------------------------------------------------------------------
(* QuizView *)

RECURSIVE CountCorrect(_, _, _)
\* newAnswers.reduce((acc, ans, i) =>
\*     ans === quiz.questions[i].correctAnswer ? acc + 1 : acc, 0), from index i on
CountCorrect(answers, questions, i) ==
    IF i > Len(answers) THEN 0
    ELSE (IF answers[i] = questions[i].correctAnswer THEN 1 ELSE 0)
         + CountCorrect(answers, questions, i + 1)

Score(answers, quiz) == CountCorrect(answers, quiz.questions, 1)

\* Faulty variant of Passed: > instead of >=
PassedStrictly(score, total) == score * 100 > PassPercent * total

\* (score / total) >= 0.8
Passed(score, total) == score * 100 >= PassPercent * total

\* Faulty variant of QuizCompletePath: a failed quiz sets the module back to
\* current
QuizCompletePathReverts(path, module, passed) ==
    [path EXCEPT !.modules =
        [i \in 1..Len(path.modules) |->
            IF path.modules[i].id = module.id
            THEN [path.modules[i] EXCEPT
                     !.status = IF passed THEN "completed" ELSE "current"]
            ELSE path.modules[i]]]

\* Faulty variant of QuizCompletePath: marks every module, not only the one
\* with the id of the current module
QuizCompletePathMarksAll(path, module, passed) ==
    IF passed
    THEN [path EXCEPT !.modules =
            [i \in 1..Len(path.modules) |->
                [path.modules[i] EXCEPT !.status = "completed"]]]
    ELSE path

\* Faulty variant of QuizCompletePath: marks the module whether passed or not
QuizCompletePathIgnoresPassed(path, module, passed) ==
    [path EXCEPT !.modules =
        [i \in 1..Len(path.modules) |->
            IF path.modules[i].id = module.id
            THEN [path.modules[i] EXCEPT !.status = "completed"]
            ELSE path.modules[i]]]

\* the learning path that handleQuizComplete stores
QuizCompletePath(path, module, passed) ==
    IF passed
    THEN [path EXCEPT !.modules =
            [i \in 1..Len(path.modules) |->
                IF path.modules[i].id = module.id
                THEN [path.modules[i] EXCEPT !.status = "completed"]
                ELSE path.modules[i]]]
    ELSE path

\* Faulty variant of QuizCompleteProfile: the score is appended twice
QuizCompleteProfileScoresTwice(p, module, score, passed) ==
    LET currentScores == Append(Append(p.performance.quizScores, score), score)
        avgAccuracy == MathRound(Sum(currentScores) * 100,
                                 Len(currentScores) * MaxScorePerQuiz)
    IN [p EXCEPT !.performance.quizScores = currentScores,
                 !.performance.averageAccuracy = avgAccuracy,
                 !.performance.completedTopics =
                     IF passed THEN Append(@, module.title) ELSE @]

\* Faulty variant of QuizCompleteProfile: the average is taken over the
\* scores before this quiz
QuizCompleteProfileStaleAverage(p, module, score, passed) ==
    LET currentScores == Append(p.performance.quizScores, score)
        avgAccuracy == MathRound(Sum(p.performance.quizScores) * 100,
                                 Len(currentScores) * MaxScorePerQuiz)
    IN [p EXCEPT !.performance.quizScores = currentScores,
                 !.performance.averageAccuracy = avgAccuracy,
                 !.performance.completedTopics =
                     IF passed THEN Append(@, module.title) ELSE @]

\* the profile that handleQuizComplete stores
QuizCompleteProfile(p, module, score, passed) ==
    LET currentScores == Append(p.performance.quizScores, score)
        avgAccuracy == MathRound(Sum(currentScores) * 100,
                                 Len(currentScores) * MaxScorePerQuiz)
    IN [p EXCEPT !.performance.quizScores = currentScores,
                 !.performance.averageAccuracy = avgAccuracy,
                 !.performance.completedTopics =
                     IF passed THEN Append(@, module.title) ELSE @]

\* an option button: setSelected(i)
setSelected ==
    /\ Interactive /\ view = QUIZ /\ quizView # Unmounted
    /\ ~quizView.showResult
    /\ \E i \in 0..(activeQuiz.questions[quizView.currentIdx + 1].options - 1) :
         /\ i # quizView.selected
         /\ quizView' = [quizView EXCEPT !.selected = i]
    /\ UNCHANGED <<appVars, onboardingView, localStorage, now, pending,
                   suggestionCalls, crashed, topicChanges,
                   tutorView>>

\* handleNext, and handleQuizComplete when the last question was answered
handleNext ==
    /\ Interactive /\ view = QUIZ /\ quizView # Unmounted
    /\ ~quizView.showResult
    /\ quizView.selected # NoSelection
    /\ LET newAnswers == Append(quizView.answers, quizView.selected)
           total == Len(activeQuiz.questions)
           s == Score(newAnswers, activeQuiz)
       IN IF quizView.currentIdx < total - 1
          THEN /\ quizView' = [quizView EXCEPT !.answers = newAnswers,
                                               !.selected = NoSelection,
                                               !.currentIdx = @ + 1]
               /\ UNCHANGED <<profile, learningPath, localStorage>>
          ELSE /\ quizView' = [quizView EXCEPT !.answers = newAnswers,
                                               !.selected = NoSelection,
                                               !.showResult = TRUE]
               /\ IF learningPath = Null \/ currentModule \in {Null, Undefined}
                     \/ profile = Null
                  THEN UNCHANGED <<profile, learningPath, localStorage>>
                  ELSE LET passed == Passed(s, total)
                           newPath == QuizCompletePath(learningPath, currentModule, passed)
                           newProfile == QuizCompleteProfile(profile, currentModule,
                                                             s, passed)
                       IN /\ learningPath' = newPath
                          /\ profile' = newProfile
                          /\ localStorage' = saveState(localStorage, newProfile, newPath)
    /\ UNCHANGED <<view, suggestedTitles, currentModule, isLoading, activeQuiz,
                   sessionStartTime, onboardingView, now, pending, suggestionCalls,
                   crashed, topicChanges,
                   tutorView>>

\* onBack of QuizView (Abort Matrix, Conclude Session): setView(View.DASHBOARD)
onBack ==
    /\ Interactive /\ view = QUIZ /\ quizView # Unmounted
    /\ view' = DASHBOARD
    /\ quizView' = RenderQuiz(DASHBOARD, activeQuiz)
    /\ UNCHANGED <<profile, learningPath, suggestedTitles, currentModule, isLoading,
                   activeQuiz, sessionStartTime, onboardingView, localStorage, now,
                   pending, suggestionCalls, crashed, topicChanges,
                   tutorView>>

----------------------------------------------------------------------------
(* Header *)

\* the logo: onClick={() => profile && setView(View.DASHBOARD)}
LogoClick ==
    /\ Interactive
    /\ profile # Null
    /\ view # DASHBOARD
    /\ view' = DASHBOARD
    /\ onboardingView' = RenderOnboarding(DASHBOARD)
    /\ quizView' = RenderQuiz(DASHBOARD, activeQuiz)
    /\ tutorView' = Unmounted
    /\ UNCHANGED <<profile, learningPath, suggestedTitles, currentModule, isLoading,
                   activeQuiz, sessionStartTime, localStorage, now, pending,
                   suggestionCalls, crashed, topicChanges>>

\* the logout button is rendered
LogoutShown == profile # Null /\ view # WELCOME /\ view # ONBOARDING

\* Faulty variant of logout: removes the profile key only
logoutKeepsPath ==
    /\ Interactive /\ LogoutShown
    /\ Restart([k \in DOMAIN localStorage \ {PROFILE_KEY} |-> localStorage[k]])

\* the logout button: localStorage.clear(); window.location.reload()
logout ==
    /\ Interactive /\ LogoutShown
    /\ Restart(EmptyStore)

----------------------------------------------------------------------------

Next ==
    \/ onStart
    \/ OnboardingInput
    \/ next
    \/ prev
    \/ handleOnboardingComplete
    \/ OnboardingPathResolved
    \/ OnboardingSuggestionsResolved
    \/ loadSuggestions
    \/ handleSelectSuggested
    \/ SelectSuggestedResolved
    \/ SelectModuleCard
    \/ ResumeNode
    \/ startQuiz
    \/ StartQuizResolved
    \/ Tick
    \/ setInput
    \/ handleSend
    \/ TutorReplyResolved
    \/ handleEndSession
    \/ FeedbackSelect
    \/ setSelected
    \/ handleNext
    \/ onBack
    \/ LogoClick
    \/ logout
    \/ Reload

Spec == Init /\ [][Next]_vars

\* A learner who opens modules and takes quizzes, ends no session through
\* the feedback screen and changes no topic
NextQuiz ==
    \/ onStart
    \/ OnboardingInput
    \/ next
    \/ prev
    \/ handleOnboardingComplete
    \/ OnboardingPathResolved
    \/ OnboardingSuggestionsResolved
    \/ SelectModuleCard
    \/ startQuiz
    \/ StartQuizResolved
    \/ setSelected
    \/ handleNext
    \/ onBack
    \/ LogoClick
    \/ logout
    \/ Reload

SpecQuiz == Init /\ [][NextQuiz]_vars

\* A learner who holds timed tutoring sessions and gives feedback, answers
\* no quiz question and changes no topic
NextSession ==
    \/ onStart
    \/ OnboardingInput
    \/ next
    \/ prev
    \/ handleOnboardingComplete
    \/ OnboardingPathResolved
    \/ OnboardingSuggestionsResolved
    \/ loadSuggestions
    \/ SelectModuleCard
    \/ ResumeNode
    \/ startQuiz
    \/ StartQuizResolved
    \/ Tick
    \/ handleEndSession
    \/ FeedbackSelect
    \/ onBack
    \/ LogoClick
    \/ logout
    \/ Reload

SpecSession == Init /\ [][NextSession]_vars

\* A learner who changes topic through the suggested courses, holds sessions
\* of no duration and takes no quiz
NextTopic ==
    \/ onStart
    \/ OnboardingInput
    \/ next
    \/ prev
    \/ handleOnboardingComplete
    \/ OnboardingPathResolved
    \/ OnboardingSuggestionsResolved
    \/ loadSuggestions
    \/ handleSelectSuggested
    \/ SelectSuggestedResolved
    \/ SelectModuleCard
    \/ ResumeNode
    \/ handleEndSession
    \/ FeedbackSelect
    \/ LogoClick
    \/ logout
    \/ Reload

SpecTopic == Init /\ [][NextTopic]_vars

\* A learner who talks to the tutor in sessions of no duration, takes no
\* quiz and changes no topic
NextTutor ==
    \/ onStart
    \/ OnboardingInput
    \/ next
    \/ prev
    \/ handleOnboardingComplete
    \/ OnboardingPathResolved
    \/ OnboardingSuggestionsResolved
    \/ SelectModuleCard
    \/ ResumeNode
    \/ setInput
    \/ handleSend
    \/ TutorReplyResolved
    \/ handleEndSession
    \/ FeedbackSelect
    \/ LogoClick
    \/ logout
    \/ Reload

SpecTutor == Init /\ [][NextTutor]_vars

\* A learner who takes quizzes and sends tutor messages, leaves a session by
\* the logo before the tutor has answered and changes no topic
NextGuards ==
    \/ onStart
    \/ OnboardingInput
    \/ next
    \/ prev
    \/ handleOnboardingComplete
    \/ OnboardingPathResolved
    \/ OnboardingSuggestionsResolved
    \/ SelectModuleCard
    \/ setInput
    \/ handleSend
    \/ startQuiz
    \/ StartQuizResolved
    \/ setSelected
    \/ handleNext
    \/ onBack
    \/ LogoClick
    \/ logout
    \/ Reload

SpecGuards == Init /\ [][NextGuards]_vars

\* A learner who holds timed sessions, sends tutor messages, gives feedback,
\* opens and leaves quizzes without answering and changes no topic
NextStore ==
    \/ onStart
    \/ OnboardingInput
    \/ next
    \/ prev
    \/ handleOnboardingComplete
    \/ OnboardingPathResolved
    \/ OnboardingSuggestionsResolved
    \/ SelectModuleCard
    \/ setInput
    \/ handleSend
    \/ startQuiz
    \/ StartQuizResolved
    \/ Tick
    \/ handleEndSession
    \/ FeedbackSelect
    \/ onBack
    \/ logout

SpecStore == Init /\ [][NextStore]_vars

\* A learner who talks to the tutor while time passes, takes no quiz, gives
\* no feedback and changes no topic
NextTranscript ==
    \/ onStart
    \/ OnboardingInput
    \/ next
    \/ prev
    \/ handleOnboardingComplete
    \/ OnboardingPathResolved
    \/ OnboardingSuggestionsResolved
    \/ SelectModuleCard
    \/ ResumeNode
    \/ setInput
    \/ handleSend
    \/ TutorReplyResolved
    \/ Tick
    \/ handleEndSession
    \/ LogoClick
    \/ logout

SpecTranscript == Init /\ [][NextTranscript]_vars

\* A learner who onboards, changes topic and opens quizzes without answering,
\* with every gateway call that a handler awaits settling at some time
NextLoading ==
    \/ onStart
    \/ OnboardingInput
    \/ next
    \/ prev
    \/ handleOnboardingComplete
    \/ OnboardingPathResolved
    \/ OnboardingSuggestionsResolved
    \/ loadSuggestions
    \/ handleSelectSuggested
    \/ SelectSuggestedResolved
    \/ startQuiz
    \/ StartQuizResolved
    \/ onBack
    \/ logout
    \/ Reload

SpecLoading ==
    /\ Init /\ [][NextLoading]_vars
    /\ WF_vars(OnboardingPathResolved)
    /\ WF_vars(OnboardingSuggestionsResolved)
    /\ WF_vars(SelectSuggestedResolved)
    /\ WF_vars(StartQuizResolved)

\* A learner who holds timed sessions, leaves the feedback screen by the
\* logo and changes topic, takes no quiz and reloads nothing
NextHistory ==
    \/ onStart
    \/ OnboardingInput
    \/ next
    \/ prev
    \/ handleOnboardingComplete
    \/ OnboardingPathResolved
    \/ OnboardingSuggestionsResolved
    \/ handleSelectSuggested
    \/ SelectSuggestedResolved
    \/ ResumeNode
    \/ Tick
    \/ handleEndSession
    \/ LogoClick
    \/ logout

SpecHistory == Init /\ [][NextHistory]_vars

----------------------------------------------------------------------------
(* Properties *)

\* the step of handleNext that answers the last question of the quiz
LastAnswer == handleNext /\ quizView'.showResult

\* number of positions at which the submitted answer is the question's correctAnswer
Correct(answers, quiz) ==
    Cardinality({i \in 1..Len(answers) : answers[i] = quiz.questions[i].correctAnswer})

\* the module sequences agree in length, order, id, title and status
SameModules(a, b) ==
    /\ Len(a) = Len(b)
    /\ \A i \in 1..Len(a) :
         /\ a[i].id = b[i].id
         /\ a[i].title = b[i].title
         /\ a[i].status = b[i].status

\* a restart on this store finds the given profile and path
Persisted(store, p, path) ==
    /\ Mounted(store).view = DASHBOARD
    /\ Mounted(store).profile = p
    /\ SameModules(Mounted(store).learningPath.modules, path.modules)

\* the effect of a passed quiz: the modules with the id of the current module
\* are completed, the others are as before, the title is appended
CreditedTo(module) ==
    /\ Len(learningPath'.modules) = Len(learningPath.modules)
    /\ \E i \in 1..Len(learningPath.modules) : learningPath.modules[i].id = module.id
    /\ \A i \in 1..Len(learningPath.modules) :
         IF learningPath.modules[i].id = module.id
         THEN learningPath'.modules[i] =
                  [learningPath.modules[i] EXCEPT !.status = "completed"]
         ELSE learningPath'.modules[i] = learningPath.modules[i]
    /\ profile'.performance.completedTopics =
           Append(profile.performance.completedTopics, module.title)

\* the effect of a failed quiz: path and completed topics as before
NotCredited ==
    /\ learningPath' = learningPath
    /\ profile'.performance.completedTopics = profile.performance.completedTopics

\* C1: when the last question of a quiz is answered, the score appended to
\* quizScores is the number of positions at which the answer equals the
\* question's correctAnswer, and the quiz is credited as passed exactly when
\* score / questionCount >= 0.8 (4 of 5 is the least passing score).
C1_ScoreAndThreshold ==
    [][LastAnswer =>
         LET n == Correct(quizView'.answers, activeQuiz)
             total == Len(activeQuiz.questions)
         IN /\ profile'.performance.quizScores =
                   Append(profile.performance.quizScores, n)
            /\ IF 5 * n >= 4 * total THEN CreditedTo(currentModule) ELSE NotCredited]_vars

\* a result screen of a quiz that was passed with 4 of 5
C1_Witness ==
    /\ view = QUIZ /\ quizView # Unmounted /\ quizView.showResult
    /\ Correct(quizView.answers, activeQuiz) = 4
    /\ Len(activeQuiz.questions) = 5
    /\ profile.performance.completedTopics # <<>>

\* C2: a 5-question quiz finished with every answer correct scores 5 and is
\* passed: the current module becomes completed in the path, every other
\* module and the order stay as they were, and completedTopics gains exactly
\* one entry, the module title, also when the title is in it already.
C2_AllCorrectCompletesModule ==
    [][(/\ LastAnswer
        /\ Len(activeQuiz.questions) = 5
        /\ \A i \in 1..5 : quizView'.answers[i] = activeQuiz.questions[i].correctAnswer)
       => /\ profile'.performance.quizScores[Len(profile'.performance.quizScores)] = 5
          /\ CreditedTo(currentModule)
          /\ learningPath'.estimatedWeeks = learningPath.estimatedWeeks
          /\ Len(profile'.performance.completedTopics) =
                 Len(profile.performance.completedTopics) + 1]_vars

\* the same module of a two-module path was passed twice with 5 of 5
C2_Witness ==
    /\ view = QUIZ /\ quizView # Unmounted /\ quizView.showResult
    /\ profile.performance.quizScores = <<5, 5>>
    /\ Len(profile.performance.completedTopics) = 2
    /\ profile.performance.completedTopics[1] = profile.performance.completedTopics[2]
    /\ Len(learningPath.modules) = 2
    /\ \E i \in 1..2 : learningPath.modules[i].status = "current"

\* C3: a 5-question quiz finished with exactly 3 correct answers is failed: no
\* module status changes and completedTopics is unchanged, the score 3 is
\* appended to quizScores, and profile and path are persisted.
C3_ThreeCorrectFails ==
    [][(/\ LastAnswer
        /\ Len(activeQuiz.questions) = 5
        /\ Correct(quizView'.answers, activeQuiz) = 3)
       => /\ NotCredited
          /\ profile'.performance.quizScores =
                 Append(profile.performance.quizScores, 3)
          /\ Persisted(localStorage', profile', learningPath')]_vars

\* a result screen of a quiz that was failed with 3 of 5
C3_Witness ==
    /\ view = QUIZ /\ quizView # Unmounted /\ quizView.showResult
    /\ Correct(quizView.answers, activeQuiz) = 3
    /\ profile.performance.quizScores[Len(profile.performance.quizScores)] = 3
    /\ \A i \in 1..Len(learningPath.modules) : learningPath.modules[i].status = "current"

\* a is the integer nearest to n / d, halves up
IsRounded(a, n, d) == 2 * (a * d - n) <= d /\ 2 * (n - a * d) < d

\* C4: whenever quizScores is non-empty, averageAccuracy is
\* round(sum(quizScores) / (len(quizScores) * 5) * 100).
C4_AverageAccuracy ==
    (profile # Null /\ profile.performance.quizScores # <<>>)
    => IsRounded(profile.performance.averageAccuracy,
                 Sum(profile.performance.quizScores) * 100,
                 Len(profile.performance.quizScores) * 5)

\* the scores [5, 3] give 80
C4_Witness ==
    /\ profile # Null
    /\ profile.performance.quizScores = <<5, 3>>
    /\ profile.performance.averageAccuracy = 80

\* the state handleOnboardingComplete started from
UnchangedSinceCall(before) ==
    /\ view' = before.view
    /\ profile' = before.profile
    /\ learningPath' = before.learningPath
    /\ currentModule' = before.currentModule
    /\ localStorage' = before.localStorage

\* C5: completeOnboarding ends either (a) on the Dashboard with the draft as
\* profile, a path of at least one module, its first module as currentModule
\* and both records persisted, or (b) with view, profile, path, currentModule
\* and store as they were before the call.
C5_OnboardingOutcomes ==
    [][OnboardingSuggestionsResolved =>
         \/ /\ view' = DASHBOARD
            /\ profile' = pending.userData
            /\ Len(learningPath'.modules) >= 1
            /\ currentModule' = learningPath'.modules[1]
            /\ Persisted(localStorage', profile', learningPath')
         \/ UnchangedSinceCall(pending.before)]_vars

\* C6: after a successful selectSuggestedTopic(title) the module sequence is
\* exactly the newly synthesized one, currentModule is the first module of
\* the new path (absent when the new path has none), profile.topic is the
\* title, the new pair is persisted and the view is Dashboard.
C6_TopicChangeReplacesPath ==
    [][/\ handleSelectSuggested =>
            /\ \E i \in 1..Len(suggestedTitles) : profile'.topic = suggestedTitles[i]
            /\ pending'.newProfile = profile'
       /\ SelectSuggestedResolved =>
            /\ \E reply \in PathReplies :
                 learningPath' = generateLearningPath(profile', reply)
            /\ \A i \in 1..Len(learningPath'.modules) :
                 learningPath'.modules[i].status = "current"
            /\ IF Len(learningPath'.modules) > 0
               THEN currentModule' = learningPath'.modules[1]
               ELSE currentModule' = Undefined
            /\ profile' = pending.newProfile
            /\ profile'.topic = pending.newProfile.topic
            /\ Persisted(localStorage', profile', learningPath')
            /\ view' = DASHBOARD]_vars

\* a one-module path was replaced by a two-module path for the new topic
C6_Witness ==
    /\ view = DASHBOARD /\ ~isLoading /\ pending = NoPending
    /\ profile # Null /\ profile.topic = <<"T1">>
    /\ learningPath # Null /\ Len(learningPath.modules) = 2
    /\ currentModule = learningPath.modules[1]
    /\ Persisted(localStorage, profile, learningPath)

\* C7: submitFeedback(rating) leads from Feedback to Dashboard, and a restart
\* on the store it leaves yields a profile whose lastFeedback is the rating.
C7_FeedbackPersisted ==
    [][\A rating \in SessionFeedback :
          submitFeedback(rating) =>
             /\ view' = DASHBOARD
             /\ Mounted(localStorage').profile # Null
             /\ "lastFeedback" \in DOMAIN Mounted(localStorage').profile.performance
             /\ Mounted(localStorage').profile.performance.lastFeedback = rating]_vars

\* the rating hard was submitted and a restart would find it
C7_Witness ==
    /\ view = DASHBOARD
    /\ HasSavedPair(localStorage)
    /\ "lastFeedback" \in DOMAIN Mounted(localStorage).profile.performance
    /\ Mounted(localStorage).profile.performance.lastFeedback = "hard"

\* what a start of the application on the current store shows; a store
\* whose two texts are present but are not both JSON holds no pair of records
StartedFromStore ==
    IF PROFILE_KEY \in DOMAIN localStorage /\ PATH_KEY \in DOMAIN localStorage
    THEN (Parses(localStorage[PROFILE_KEY]) /\ Parses(localStorage[PATH_KEY]))
         => /\ view = DASHBOARD
            /\ profile = localStorage[PROFILE_KEY].json
            /\ learningPath = localStorage[PATH_KEY].json
            /\ IF Len(learningPath.modules) > 0
               THEN currentModule = learningPath.modules[1]
               ELSE currentModule = Undefined
    ELSE /\ view = WELCOME
         /\ profile = Null
         /\ learningPath = Null

\* C8: the application starts on the Dashboard, with profile and path equal
\* to the persisted records and currentModule = path.modules[0], exactly when
\* both records are in the store; when a record is missing it starts on
\* Welcome with neither profile nor path, whatever the other key holds.
C8_Startup ==
    StartedFromStore /\ [][(Reload \/ logout) => StartedFromStore']_vars

\* a restart restored a two-module path and is still fetching suggestions
C8_Witness ==
    /\ view = DASHBOARD
    /\ suggestedTitles = <<>>
    /\ suggestionCalls = <<profile>>
    /\ HasSavedPair(localStorage)
    /\ Len(learningPath.modules) = 2
    /\ currentModule = learningPath.modules[1]

\* C9: logout removes both persisted records and leads to Welcome with
\* profile, path, current module, active quiz and suggestions absent; a
\* start that follows begins in Welcome.
C9_Logout ==
    [][logout =>
         /\ DOMAIN localStorage' = {}
         /\ view' = WELCOME
         /\ profile' = Null
         /\ learningPath' = Null
         /\ currentModule' = Null
         /\ activeQuiz' = Null
         /\ suggestedTitles' = <<>>
         /\ Mounted(localStorage').view = WELCOME]_vars

\* Welcome with an empty store after a tutoring session took place
C9_Witness ==
    /\ view = WELCOME
    /\ DOMAIN localStorage = {}
    /\ profile = Null
    /\ now > 0

\* the session clock: selectModule captures the time, nothing changes it
\* while the session is open
SessionClock ==
    /\ (view # TUTORING /\ view' = TUTORING) => sessionStartTime' = now
    /\ (view = TUTORING /\ view' = TUTORING) => sessionStartTime' = sessionStartTime

\* minutes added to timeSpentMinutes by this step
Added == profile'.performance.timeSpentMinutes - profile.performance.timeSpentMinutes

\* C10 as stated: endSession adds round((now - sessionStart) / 60000), a
\* non-negative integer, and adds 0 for every session shorter than one minute.
C10_Original ==
    [][/\ SessionClock
       /\ handleEndSession =>
            /\ Added >= 0
            /\ IsRounded(Added, now - sessionStartTime, 60000)
            /\ (now - sessionStartTime < 60000 => Added = 0)]_vars

\* C10 as amended: endSession adds round((now - sessionStart) / 60000), a
\* non-negative integer; it adds 0 for every session shorter than 30000 ms
\* and 1 for every session of 30000 ms or more that is shorter than a minute.
C10_ElapsedMinutes ==
    [][/\ SessionClock
       /\ handleEndSession =>
            /\ Added >= 0
            /\ IsRounded(Added, now - sessionStartTime, 60000)
            /\ (now - sessionStartTime < 30000 => Added = 0)
            /\ (now - sessionStartTime >= 30000 /\ now - sessionStartTime < 60000
                  => Added = 1)]_vars

\* a session of 30000 ms was ended and counted as one minute
C10_Witness ==
    /\ view = FEEDBACK
    /\ now - sessionStartTime = 30000
    /\ profile.performance.timeSpentMinutes = 1

\* the store holds a text that JSON.parse rejects
HoldsUnparsable(store) == \E k \in DOMAIN store : ~Parses(store[k])

\* C11: a start on a store with a record that cannot be deserialized ends in
\* Welcome with neither profile nor path, and the application is not broken.
C11_RestoreFallsBack ==
    /\ HoldsUnparsable(localStorage)
         => (view = WELCOME /\ profile = Null /\ learningPath = Null /\ ~crashed)
    /\ [][(Reload /\ HoldsUnparsable(localStorage))
            => (view' = WELCOME /\ profile' = Null /\ learningPath' = Null
                /\ ~crashed')]_vars

\* C12: every change of the view made by the running application is one of
\* Welcome to Onboarding, Onboarding to Dashboard, Dashboard to Tutoring,
\* Tutoring to Feedback, Feedback to Dashboard by submitFeedback, Dashboard
\* to Quiz, Quiz to Dashboard, or any view to Welcome by logout.
C12_ListedTransitions ==
    [][(view' # view /\ ~Reload) =>
         \/ view = WELCOME /\ view' = ONBOARDING
         \/ view = ONBOARDING /\ view' = DASHBOARD
         \/ view = DASHBOARD /\ view' = TUTORING
         \/ view = TUTORING /\ view' = FEEDBACK
         \/ view = FEEDBACK /\ view' = DASHBOARD /\ FeedbackSelect
         \/ view = DASHBOARD /\ view' = QUIZ
         \/ view = QUIZ /\ view' = DASHBOARD
         \/ view' = WELCOME /\ logout]_vars

\* a gateway call is in flight
CallPending ==
    \/ pending # NoPending
    \/ suggestionCalls # <<>>
    \/ tutorView # Unmounted /\ tutorView.isTyping

\* the current view has the data it renders from
ViewHasData ==
    /\ view = DASHBOARD => (profile # Null /\ learningPath # Null)
    /\ view = TUTORING => (profile # Null /\ currentModule \notin {Null, Undefined})
    /\ view = QUIZ => (activeQuiz # Null /\ Len(activeQuiz.questions) >= 1)

\* a step of a handler that the user triggers
UserStep ==
    \/ onStart \/ OnboardingInput \/ next \/ prev \/ handleOnboardingComplete
    \/ handleSelectSuggested \/ SelectModuleCard \/ ResumeNode \/ startQuiz
    \/ setInput \/ handleSend \/ handleEndSession \/ FeedbackSelect
    \/ setSelected \/ handleNext \/ onBack \/ LogoClick \/ logout

\* C13: in every state with no gateway call in flight (the store holding
\* texts that parse), the view has the data it needs and some user transition
\* is enabled.
C13_AlwaysUsable ==
    (~CallPending /\ ~HoldsUnparsable(localStorage))
    => (ViewHasData /\ ENABLED UserStep)

\* C14: when generateQuiz fails, the end of startQuiz leaves the view at
\* Dashboard, leaves profile, path, currentModule, activeQuiz and the store as
\* they were when startQuiz was called, and clears the loading flag.
C14_QuizFailureAborts ==
    [][\A reply \in QuizReplies :
          (generateQuizRejects(reply) /\ StartQuizSettled(reply)) =>
             /\ isLoading /\ ~isLoading'
             /\ pending.before.view = DASHBOARD /\ view' = DASHBOARD
             /\ profile' = pending.before.profile
             /\ learningPath' = pending.before.learningPath
             /\ currentModule' = pending.before.currentModule
             /\ activeQuiz' = pending.before.activeQuiz
             /\ localStorage' = pending.before.localStorage
             /\ pending' = NoPending]_vars

\* a quiz is being generated while the quiz taken before is still activeQuiz
C14_Witness ==
    /\ pending.op = "startQuiz" /\ isLoading
    /\ view = DASHBOARD
    /\ activeQuiz # Null
    /\ profile.performance.quizScores # <<>>

\* the path that generateLearningPath falls back to for this profile
IsFallbackFor(path, p) ==
    /\ path.modules = << [id |-> "m1",
                          title |-> <<"Foundations", "of">> \o p.topic,
                          status |-> "current"] >>
    /\ path.personalizedReasoning = "Fallback sequence activated"
    /\ path.estimatedWeeks = 4

\* C15: when the provider call rejects or its reply has no module list,
\* generateLearningPath returns the fixed one-module path of the profile
\* (status current, title from profile.topic, fallback rationale) and the
\* handler goes on: handleOnboardingComplete and handleSelectSuggested reach
\* the Dashboard with that path.
C15_PathFallback ==
    [][/\ \A reply \in PathReplies :
            /\ (PathReplyUnusable(reply) /\ OnboardingPathSettled(reply)) =>
                  /\ IsFallbackFor(learningPath', pending.userData)
                  /\ currentModule' = learningPath'.modules[1]
                  /\ pending'.await = "loadSuggestions"
            /\ (PathReplyUnusable(reply) /\ SelectSuggestedSettled(reply)) =>
                  /\ IsFallbackFor(learningPath', pending.newProfile)
                  /\ currentModule' = learningPath'.modules[1]
                  /\ view' = DASHBOARD /\ ~isLoading'
       /\ OnboardingSuggestionsResolved =>
            /\ view' = DASHBOARD /\ ~isLoading'
            /\ learningPath' = learningPath]_vars

\* the Dashboard of the topic T1 with the fallback path made for it
C15_Witness ==
    /\ view = DASHBOARD /\ ~isLoading /\ pending = NoPending
    /\ profile # Null /\ profile.topic = <<"T1">>
    /\ learningPath # Null /\ IsFallbackFor(learningPath, profile)
    /\ currentModule = learningPath.modules[1]

\* the last message of a transcript
LastMessage(tv) == tv.messages[Len(tv.messages)]

\* C16: when the tutor call fails, the handleSend that issued it still
\* appends an assistant message, the generic nudge.
C16_TutorFailureNudges ==
    [][\A reply \in TutorReplies :
          (TutorResponseRejects(reply) /\ TutorReplySettled(reply)) =>
             /\ Len(tutorView'.messages) = Len(tutorView.messages) + 1
             /\ LastMessage(tutorView').role = "assistant"
             /\ LastMessage(tutorView').content = Nudge]_vars

\* C17: when the tutor call fails, the transcript is as handleSend left it,
\* ending with the user's message, the view stays Tutoring and isTyping is
\* cleared.
C17_TutorFailureKeepsTranscript ==
    [][\A reply \in TutorReplies :
          (TutorResponseRejects(reply) /\ TutorReplySettled(reply)) =>
             /\ tutorView'.messages = tutorView.messages
             /\ LastMessage(tutorView').role = "user"
             /\ view = TUTORING /\ view' = TUTORING
             /\ tutorView.isTyping /\ ~tutorView'.isTyping]_vars

\* a transcript that ends with a message of the user, no reply awaited
C17_Witness ==
    /\ view = TUTORING /\ tutorView # Unmounted
    /\ ~tutorView.isTyping
    /\ LastMessage(tutorView).role = "user"

HandlerCallPending ==
    \/ pending # NoPending
    \/ tutorView # Unmounted /\ tutorView.isTyping

\* a step of one of the transitions of the view machine
UserTransition ==
    \/ onStart \/ handleOnboardingComplete \/ handleSelectSuggested
    \/ SelectModuleCard \/ ResumeNode \/ startQuiz \/ handleSend
    \/ handleEndSession \/ FeedbackSelect \/ handleNext \/ onBack
    \/ LogoClick \/ logout

\* C19: while a call issued by handleOnboardingComplete,
\* handleSelectSuggested, startQuiz or handleSend is in flight, no user
\* transition changes the state.
C19_NoInterleaving ==
    [][HandlerCallPending => ~UserTransition]_vars

\* C20: while the call of handleSelectSuggested is in flight, profile, path,
\* currentModule and store are as they were before the transition and the
\* view is Dashboard.
C20_TopicChangeAtomic ==
    pending.op = "handleSelectSuggested" =>
        /\ view = DASHBOARD
        /\ profile = pending.before.profile
        /\ learningPath = pending.before.learningPath
        /\ currentModule = pending.before.currentModule
        /\ localStorage = pending.before.localStorage

----------------------------------------------------------------------------
(* Onboarding and the suggestion call *)

\* C21: once handleOnboardingComplete has applied the synthesized path, the
\* view is Dashboard although its topic-suggestion call has not resolved.
C21_DashboardBeforeSuggestions ==
    (pending.op = "handleOnboardingComplete" /\ pending.await = "loadSuggestions")
        => view = DASHBOARD

\* C22: a present currentModule equals, in id, title and status, one of the
\* modules of the current learning path.
C22_CurrentModuleInPath ==
    (currentModule \notin {Null, Undefined} /\ learningPath # Null) =>
        \E i \in 1..Len(learningPath.modules) :
            /\ learningPath.modules[i].id = currentModule.id
            /\ learningPath.modules[i].title = currentModule.title
            /\ learningPath.modules[i].status = currentModule.status

----------------------------------------------------------------------------
(* The module sequence between two path generations *)

\* a step in which a handler applies a newly generated learning path
PathGenerated == OnboardingPathResolved \/ SelectSuggestedResolved

\* C23: in a step that keeps the learning path and is not a path generation
\* the module sequence keeps its length, ids and order; a status changes only
\* from current to completed, only in the step that finishes a passed quiz
\* with the current module having that module's id; a completed module stays
\* completed.
C23_ModuleSequenceStable ==
    [][(learningPath # Null /\ learningPath' # Null /\ ~PathGenerated) =>
        /\ Len(learningPath'.modules) = Len(learningPath.modules)
        /\ \A i \in 1..Len(learningPath.modules) :
             /\ learningPath'.modules[i].id = learningPath.modules[i].id
             /\ learningPath'.modules[i].title = learningPath.modules[i].title
             /\ learningPath.modules[i].status = "completed"
                    => learningPath'.modules[i].status = "completed"
             /\ learningPath'.modules[i].status # learningPath.modules[i].status =>
                    /\ learningPath.modules[i].status = "current"
                    /\ learningPath'.modules[i].status = "completed"
                    /\ LastAnswer
                    /\ Passed(Score(quizView'.answers, activeQuiz),
                              Len(activeQuiz.questions))
                    /\ currentModule.id = learningPath.modules[i].id]_vars

\* a quiz on a module of a two-module path was passed, a later quiz on the
\* same module was failed: the module is still completed, the other current
C23_Witness ==
    /\ view = QUIZ /\ quizView # Unmounted /\ quizView.showResult
    /\ profile # Null /\ learningPath # Null
    /\ Len(profile.performance.quizScores) = 2
    /\ profile.performance.quizScores[1] >= 4
    /\ profile.performance.quizScores[2] < 4
    /\ Len(learningPath.modules) = 2
    /\ currentModule.id = "m2"
    /\ learningPath.modules[2].status = "completed"
    /\ learningPath.modules[1].status = "current"

----------------------------------------------------------------------------
(* The persisted store *)

\* a step of a handler that calls saveState or clears the store
StoreWriter ==
    \/ OnboardingPathResolved \/ SelectSuggestedResolved
    \/ FeedbackSelect \/ LastAnswer \/ logout

\* a step of a transition that is said to leave the store alone
StoreReader ==
    \/ onStart \/ SelectModuleCard \/ ResumeNode \/ handleSend
    \/ handleEndSession \/ startQuiz \/ onBack
    \/ (handleNext /\ ~quizView'.showResult)

PairOrNothing(store) == (PROFILE_KEY \in DOMAIN store) <=> (PATH_KEY \in DOMAIN store)

\* C25: every step that changes the persisted store leaves it with both
\* records (profile and learning path) or with neither, whatever it held
\* before.
C25_BothOrNeither ==
    [][localStorage' # localStorage => PairOrNothing(localStorage')]_vars

\* the store after the write of a topic change: both records, of the new topic
C25_Witness ==
    /\ topicChanges = 1 /\ pending = NoPending
    /\ DOMAIN localStorage = {PROFILE_KEY, PATH_KEY}
    /\ Parses(localStorage[PROFILE_KEY]) /\ Parses(localStorage[PATH_KEY])
    /\ JSONparse(localStorage[PROFILE_KEY]).topic # <<"T0">>

----------------------------------------------------------------------------
(* The onboarding wizard *)

\* name, class/context, subject and topic of the draft are present and non-empty
DraftComplete(data) ==
    /\ ~Falsy(data, "name", "")
    /\ ~Falsy(data, "classInfo", "")
    /\ ~Falsy(data, "subject", "")
    /\ ~Falsy(data, "topic", <<>>)

\* C26: the wizard is at step 3 only with name, class/context, subject and
\* topic non-empty, and a call of handleOnboardingComplete was made at step 3
\* with a draft that has these four fields non-empty.
C26_DraftComplete ==
    /\ (onboardingView # Unmounted /\ onboardingView.step = 3)
            => DraftComplete(onboardingView.data)
    /\ pending.op = "handleOnboardingComplete" =>
            /\ onboardingView # Unmounted /\ onboardingView.step = 3
            /\ pending.userData = onboardingView.data
            /\ DraftComplete(pending.userData)

\* handleOnboardingComplete was called with a complete draft
C26_Witness ==
    /\ pending.op = "handleOnboardingComplete"
    /\ pending.await = "generateLearningPath"
    /\ pending.userData.name = "Ann" /\ pending.userData.topic = <<"T0">>
    /\ onboardingView.step = 3

----------------------------------------------------------------------------
(* The transcript of a tutoring session *)

\* s is an initial segment of t
IsPrefix(s, t) == Len(s) <= Len(t) /\ \A i \in 1..Len(s) : t[i] = s[i]

\* C27: in a step within one tutoring session the transcript stays as it is
\* or gets one message appended; the appended message's timestamp is not
\* before the last one's; a user message is appended only while no reply is
\* pending and makes one pending; an assistant message is appended only
\* while a reply is pending, directly after a user message, and ends the
\* pending state.
C27_TranscriptAppendOnly ==
    [][(tutorView # Unmounted /\ tutorView' # Unmounted) =>
        LET old == tutorView.messages
            new == tutorView'.messages
        IN /\ IsPrefix(old, new)
           /\ Len(new) <= Len(old) + 1
           /\ Len(new) = Len(old) + 1 =>
                /\ new[Len(new)].timestamp >= old[Len(old)].timestamp
                /\ new[Len(new)].role = "user" =>
                       (~tutorView.isTyping /\ tutorView'.isTyping)
                /\ new[Len(new)].role = "assistant" =>
                       /\ tutorView.isTyping /\ ~tutorView'.isTyping
                       /\ old[Len(old)].role = "user"]_vars

\* greeting, user message and reply at three different times
C27_Witness ==
    /\ tutorView # Unmounted
    /\ Len(tutorView.messages) = 3
    /\ tutorView.messages[2].role = "user"
    /\ tutorView.messages[3].role = "assistant"
    /\ tutorView.messages[1].timestamp < tutorView.messages[2].timestamp
    /\ tutorView.messages[2].timestamp < tutorView.messages[3].timestamp

----------------------------------------------------------------------------
(* Memory and store on the Dashboard *)

----------------------------------------------------------------------------
(* The module of a quiz *)

\* the quiz finished in this step is a passed one
PassedNow ==
    Passed(Score(quizView'.answers, activeQuiz), Len(activeQuiz.questions))

\* C29: generateQuiz is issued with the title of currentModule; currentModule
\* stays the same while that call is in flight, in the step that shows the
\* quiz and for as long as that quiz is displayed; a quiz is displayed only
\* by the continuation of startQuiz; and a passed quiz is credited to
\* currentModule. So the credited module is the one the quiz was made for.
C29_QuizCreditedToItsModule ==
    [][/\ startQuiz => pending'.moduleTitle = currentModule.title
       /\ (pending.op = "startQuiz" /\ (pending'.op = "startQuiz" \/ StartQuizResolved))
              => /\ currentModule' = currentModule
                 /\ currentModule.title = pending.moduleTitle
       /\ (quizView # Unmounted /\ quizView' # Unmounted)
              => currentModule' = currentModule
       /\ (quizView = Unmounted /\ quizView' # Unmounted) => StartQuizResolved
       /\ (LastAnswer /\ PassedNow) => CreditedTo(currentModule)]_vars

\* a quiz started for the second module was passed: that module is completed,
\* the first is not
C29_Witness ==
    /\ view = QUIZ /\ quizView # Unmounted /\ quizView.showResult
    /\ profile # Null /\ learningPath # Null
    /\ Len(profile.performance.quizScores) = 1
    /\ currentModule.id = "m2"
    /\ Len(learningPath.modules) = 2
    /\ learningPath.modules[1].status = "current"
    /\ learningPath.modules[2].status = "completed"
    /\ profile.performance.completedTopics = <<currentModule.title>>

----------------------------------------------------------------------------
(* The suggested topics *)

\* titles is what a fetch issued for the topic may deliver
FetchedFor(titles, p) ==
    \E reply \in SuggestionReplies : titles = getRelatedCourseSuggestions(p, reply)

\* C30: whenever a profile is shown and no handler and no suggestion fetch is
\* in flight, the displayed suggestion list is a result of the fetch for the
\* current profile's topic.
C30_SuggestionsOfCurrentTopic ==
    (profile # Null /\ ~crashed /\ pending = NoPending /\ suggestionCalls = <<>>)
        => FetchedFor(suggestedTitles, profile)

----------------------------------------------------------------------------
(* The loading flag *)

\* the step in which a suspended handler runs to its end
HandlerEnds == pending # NoPending /\ pending' = NoPending

\* C31: the loading flag is set only while handleOnboardingComplete,
\* handleSelectSuggested or startQuiz is suspended at a gateway call; the step
\* in which the handler ends, on success or failure, leaves the flag cleared;
\* and, the awaited calls settling, a set flag is eventually cleared.
C31_LoadingCleared ==
    /\ [](isLoading => pending # NoPending)
    /\ [][HandlerEnds => ~isLoading']_vars
    /\ (isLoading ~> ~isLoading)

\* a topic change has run to its end: the flag it set is cleared
C31_Witness ==
    /\ topicChanges >= 1 /\ pending = NoPending /\ ~isLoading
    /\ view = DASHBOARD /\ profile # Null
    /\ profile.topic # <<"T0">>
    /\ suggestionCalls # <<>>

----------------------------------------------------------------------------
(* Scores per quiz *)

\* quizScores of a profile, none when there is no profile
ScoresOf(p) == IF p = Null THEN <<>> ELSE p.performance.quizScores

\* C32: while a profile is kept, quizScores changes only in the step that
\* answers the last question of the displayed quiz, which appends exactly
\* one score; answering an earlier question, choosing an option, leaving the
\* quiz by Abort or by the logo append none; and once the result is shown it
\* stays shown for as long as that quiz is displayed and no further score is
\* appended.
C32_OneScorePerQuiz ==
    [][/\ (profile # Null /\ profile' # Null /\ ScoresOf(profile') # ScoresOf(profile))
              => LastAnswer
       /\ LastAnswer =>
              /\ ~quizView.showResult
              /\ ScoresOf(profile') =
                     Append(ScoresOf(profile), Score(quizView'.answers, activeQuiz))
       /\ ((handleNext /\ ~quizView'.showResult) \/ setSelected \/ onBack \/ LogoClick)
              => ScoresOf(profile') = ScoresOf(profile)
       /\ (quizView # Unmounted /\ quizView.showResult /\ quizView' # Unmounted)
              => (quizView'.showResult /\ ScoresOf(profile') = ScoresOf(profile))]_vars

\* two quizzes were answered to the end: two scores
C32_Witness ==
    /\ view = QUIZ /\ quizView # Unmounted /\ quizView.showResult
    /\ Len(quizView.answers) = Len(activeQuiz.questions)
    /\ Len(ScoresOf(profile)) = 2

----------------------------------------------------------------------------
(* The performance history *)

====
